---- MODULE Spec2Model ----
(***************************************************************************)
(* Model of the chat server's coordinator (src/src/server.rs), its Room    *)
(* and Client records (room.rs, client.rs), the room code conversion       *)
(* (types.rs) and the per-connection delivery channel (handler.rs).        *)
(*                                                                         *)
(* An Option<T> of the source is a sequence of length at most one: <<>> is *)
(* None and <<v>> is Some(v).  A HashMap is a function whose DOMAIN is the *)
(* set of its keys.  A String of the source is a sequence of characters.   *)
(*                                                                         *)
(* A handler of the coordinator is an async fn: it runs without            *)
(* interruption up to a Client::send(..).await, where other tasks (the     *)
(* write tasks of the connections) may run.  Each handler action below is  *)
(* the handler's code up to its first send; SendStep is one send together  *)
(* with the code that follows it up to the next send or the handler's end. *)
(* A send that waits for room in a full channel is a SendStep not yet      *)
(* taken; a send to a channel whose receiver is dropped fails at once.     *)
(*                                                                         *)
(* The coordinator takes the commands in the order of its queue.  Spec     *)
(* leaves the queue out and lets the coordinator take any command of any   *)
(* client whose Connect it has handled; SpecVacated is Spec with the       *)
(* history of the codes whose rooms were deleted; SpecQueue has the queue, *)
(* the connection handlers that fill it and the end of the coordinator's   *)
(* loop; SpecTold is Spec with the history of the typing notifications;    *)
(* SpecGenerate takes the loop of handle_create_room one draw at a time;   *)
(* SpecDelivery has the queue, the contents of the delivery channels and   *)
(* the write tasks that empty them.  before, freed, yielded, issued and    *)
(* told are history variables: they are written and never read by the      *)
(* handlers.                                                               *)
(***************************************************************************)
EXTENDS Naturals, Sequences, FiniteSets, TLC

VARIABLES
    clients,        \* ChatServer.clients: ClientId -> Client
    rooms,          \* ChatServer.rooms: RoomCode -> Room
    client_rooms,   \* ChatServer.client_rooms: ClientId -> RoomCode
    msg_rx,         \* per connection: the receiving end of its delivery channel
    cmd,            \* the command the coordinator took last from its queue
    pc,             \* where the coordinator is: "recv", "send" or "generate"
    pend,           \* the sends the current handler has still to make, in order
    sent,           \* the sends the current handler has made, in order
    before,         \* history: the registries when the coordinator took cmd
    freed,          \* history: the codes of the rooms the command before cmd deleted
    queue,          \* the command queue: the commands sent and not yet received
    conn,           \* per connection: where its handle_connection is
    reader,         \* per connection: the state of its read task
    cmd_tx,         \* the listener still holds its Sender of the command queue
    chan,           \* per connection: the notifications in its delivery channel
    yielded,        \* history: the contents of the Chat notifications its write
                    \* task has received
    issued,         \* history: the contents of the Chats its read task has sent
    told,           \* history: the last typing notification a session got from
                    \* its present partner was PartnerTyping
    attempts        \* the codes the loop of handle_create_room has drawn and
                    \* found in use, counted up to MaxAttempts

vars == <<clients, rooms, client_rooms, msg_rx, cmd, pc, pend, sent, before,
          freed, queue, conn, reader, cmd_tx, chan, yielded, issued, told,
          attempts>>

\* what Spec leaves out: the history of the deleted codes, the command queue
\* and the connection handlers that fill it
aside == <<freed, queue, conn, reader, cmd_tx>>

\* the contents of the delivery channels and their history
delivery == <<chan, yielded, issued>>

\* all that Spec leaves out
apart == <<aside, delivery, told, attempts>>

registries == <<clients, rooms, client_rooms>>

-----------------------------------------------------------------------------
(* Bounds of the model *)

\* the ClientIds of the connections the listener accepts (ClientId::new gives
\* each connection an id no other connection has)
ClientIds == {1, 2, 3}

\* the usernames each client may choose: two clients may choose the same
Usernames(client_id) ==
    IF client_id = 2 THEN {<<"B", "o">>} ELSE {<<"A", "l">>}

\* the number of delivery channels that may close before their client is
\* disconnected
MaxClosed == 1

\* the chat contents a client may send
Contents == {<<"h", "i">>}

\* the strings a client may give as a room code, and RoomCode::generate may
\* draw before it converts to upper case
RawCodes ==
    {<<"a", "b">>, <<"A", "b">>, <<"a", "B">>, <<"A", "B">>, <<"c", "D">>, <<"C", "D">>}

-----------------------------------------------------------------------------
(* Option<T> *)

None == <<>>

Some(v) == <<v>>

is_some(o) == o # <<>>

unwrap(o) == o[1]

-----------------------------------------------------------------------------
(* types.rs *)

char_to_uppercase(ch) ==
    CASE ch = "a" -> "A"
      [] ch = "b" -> "B"
      [] ch = "c" -> "C"
      [] ch = "d" -> "D"
      [] OTHER -> ch

to_uppercase(str) == [i \in 1..Len(str) |-> char_to_uppercase(str[i])]

\* as from_string, but the code is taken as the client wrote it
from_string_verbatim(code) == code

\* RoomCode::from_string
from_string(code) == to_uppercase(code)

\* the values RoomCode::generate can return
generate == {to_uppercase(raw) : raw \in RawCodes}

-----------------------------------------------------------------------------
(* HashMap *)

contains_key(map, k) == k \in DOMAIN map

insert(map, k, v) == [x \in (DOMAIN map) \cup {k} |-> IF x = k THEN v ELSE map[x]]

remove(map, k) == [x \in (DOMAIN map) \ {k} |-> map[x]]

EmptyMap == [x \in {} |-> x]

-----------------------------------------------------------------------------
(* message.rs: ServerMessage *)

UsernameSet(username) == [type |-> "username_set", username |-> username]

RoomCreated(code) == [type |-> "room_created", room_code |-> code]

RoomJoined(code, partner) == [type |-> "room_joined", room_code |-> code, partner |-> partner]

PartnerJoined(username) == [type |-> "partner_joined", username |-> username]

Chat(from, content) == [type |-> "chat", from |-> from, content |-> content]

PartnerTyping == [type |-> "partner_typing"]

PartnerStopTyping == [type |-> "partner_stop_typing"]

PartnerLeft == [type |-> "partner_left"]

\* impl From<AppError> for ServerMessage
UsernameRequired == [type |-> "error", code |-> "username_required"]

RoomNotFound(code) == [type |-> "error", code |-> "room_not_found", room_code |-> code]

RoomFull == [type |-> "error", code |-> "room_full"]

NotInRoom == [type |-> "error", code |-> "not_in_room"]

AlreadyInRoom == [type |-> "error", code |-> "already_in_room"]

-----------------------------------------------------------------------------
(* client.rs *)

\* as Client::new, but the typing flag starts set
Client_new_typing == [username |-> None, is_typing |-> TRUE]

\* Client::new (the sender is the channel of the connection with the same id)
Client_new == [username |-> None, is_typing |-> FALSE]

\* as Client::has_username, but every client counts as named
has_username_always(client) == TRUE

has_username(client) == is_some(client.username)

display_name(client) ==
    IF is_some(client.username) THEN unwrap(client.username)
    ELSE <<"U", "n", "k", "n", "o", "w", "n">>

set_username(client, username) == [client EXCEPT !.username = Some(username)]

set_typing(client, is_typing) == [client EXCEPT !.is_typing = is_typing]

-----------------------------------------------------------------------------
(* room.rs *)

Room_new(host) == [host |-> host, guest |-> None]

\* as Room::is_full, but no room counts as full
is_full_never(room) == FALSE

is_full(room) == is_some(room.guest)

\* as Room::get_partner, but the guest is not given the host
Room_get_partner_of_host(room, client_id) ==
    IF room.host = client_id THEN room.guest ELSE None

\* as Room::get_partner, but the host of a room without a guest is its own
\* partner
Room_get_partner_self(room, client_id) ==
    IF room.host = client_id
    THEN (IF is_some(room.guest) THEN room.guest ELSE Some(client_id))
    ELSE IF room.guest = Some(client_id) THEN Some(room.host)
    ELSE None

Room_get_partner(room, client_id) ==
    IF room.host = client_id THEN room.guest
    ELSE IF room.guest = Some(client_id) THEN Some(room.host)
    ELSE None

\* as Room::remove_client, but a departing host is not replaced by the guest
Room_remove_client_no_promotion(room, client_id) ==
    IF room.host = client_id
    THEN [room |-> room, delete |-> ~is_some(room.guest)]
    ELSE IF room.guest = Some(client_id)
    THEN [room |-> [room EXCEPT !.guest = None], delete |-> FALSE]
    ELSE [room |-> room, delete |-> FALSE]

\* as Room::remove_client, but the room of a departing host is always deleted
Room_remove_client_deletes(room, client_id) ==
    IF room.host = client_id
    THEN [room |-> room, delete |-> TRUE]
    ELSE IF room.guest = Some(client_id)
    THEN [room |-> [room EXCEPT !.guest = None], delete |-> FALSE]
    ELSE [room |-> room, delete |-> FALSE]

\* as Room::remove_client, but the slot of a departing guest is not cleared
Room_remove_client_keeps_guest(room, client_id) ==
    IF room.host = client_id
    THEN IF is_some(room.guest)
         THEN [room |-> [host |-> unwrap(room.guest), guest |-> None], delete |-> FALSE]
         ELSE [room |-> room, delete |-> TRUE]
    ELSE [room |-> room, delete |-> FALSE]

\* as Room::remove_client, but the room of a host that leaves alone is kept
Room_remove_client_keeps(room, client_id) ==
    IF room.host = client_id
    THEN IF is_some(room.guest)
         THEN [room |-> [host |-> unwrap(room.guest), guest |-> None], delete |-> FALSE]
         ELSE [room |-> room, delete |-> FALSE]
    ELSE IF room.guest = Some(client_id)
    THEN [room |-> [room EXCEPT !.guest = None], delete |-> FALSE]
    ELSE [room |-> room, delete |-> FALSE]

\* Room::remove_client: the room afterwards, and whether it is to be deleted
Room_remove_client(room, client_id) ==
    IF room.host = client_id
    THEN IF is_some(room.guest)
         THEN [room |-> [host |-> unwrap(room.guest), guest |-> None], delete |-> FALSE]
         ELSE [room |-> room, delete |-> TRUE]
    ELSE IF room.guest = Some(client_id)
    THEN [room |-> [room EXCEPT !.guest = None], delete |-> FALSE]
    ELSE [room |-> room, delete |-> FALSE]

\* as add_guest, but the client that joins takes the host's slot
add_guest_as_host(room, guest_id) ==
    IF is_full(room) THEN room ELSE [host |-> guest_id, guest |-> Some(room.host)]

add_guest(room, guest_id) ==
    IF is_full(room) THEN room ELSE [room EXCEPT !.guest = Some(guest_id)]

-----------------------------------------------------------------------------
(* server.rs *)

\* one Client::send the handler is to make
Send(to, msg) == [to |-> to, msg |-> msg]

Command(op, client_id, arg) == [op |-> op, client_id |-> client_id, arg |-> arg]

\* the handler of command c has run up to its first send, sends being the
\* sends it makes from there on
Handled(c, sends) ==
    /\ cmd' = c
    /\ before' = [clients |-> clients, rooms |-> rooms, client_rooms |-> client_rooms]
    /\ pend' = sends
    /\ sent' = <<>>
    /\ pc' = IF sends = <<>> THEN "recv" ELSE "send"

\* ChatServer::get_partner
get_partner(client_id, room_code) ==
    IF contains_key(rooms, room_code)
    THEN Room_get_partner(rooms[room_code], client_id)
    ELSE None

\* as remove_client_from_room, but the room is left as it is
remove_client_from_room_keeps_slot(client_id, room_code) ==
    [rooms |-> rooms, sends |-> <<>>]

\* as remove_client_from_room, but PartnerLeft goes to the client that leaves
remove_client_from_room_tells_leaver(client_id, room_code) ==
    IF ~contains_key(rooms, room_code)
    THEN [rooms |-> rooms, sends |-> <<>>]
    ELSE LET room == rooms[room_code]
             partner_id == Room_get_partner(room, client_id)
             removed == Room_remove_client(room, client_id)
         IN  [rooms |-> IF removed.delete THEN remove(rooms, room_code)
                        ELSE insert(rooms, room_code, removed.room),
              sends |-> IF is_some(partner_id) /\ contains_key(clients, client_id)
                        THEN <<Send(client_id, PartnerLeft)>>
                        ELSE <<>>]

\* ChatServer::remove_client_from_room: the rooms afterwards and the sends
remove_client_from_room(client_id, room_code) ==
    IF ~contains_key(rooms, room_code)
    THEN [rooms |-> rooms, sends |-> <<>>]
    ELSE LET room == rooms[room_code]
             partner_id == Room_get_partner(room, client_id)
             removed == Room_remove_client(room, client_id)
         IN  [rooms |-> IF removed.delete THEN remove(rooms, room_code)
                        ELSE insert(rooms, room_code, removed.room),
              sends |-> IF is_some(partner_id) /\ contains_key(clients, unwrap(partner_id))
                        THEN <<Send(unwrap(partner_id), PartnerLeft)>>
                        ELSE <<>>]

\* as already_in_room, but the check is left out
already_in_room_never(client_id) == FALSE

\* the check "already in a room" of handle_create_room and handle_join_room
already_in_room(client_id) == contains_key(client_rooms, client_id)

handle_connect(client_id) ==
    /\ pc = "recv"
    /\ msg_rx[client_id] = "none"
    /\ msg_rx' = [msg_rx EXCEPT ![client_id] = "open"]
    /\ clients' = insert(clients, client_id, Client_new)
    /\ UNCHANGED <<rooms, client_rooms>>
    /\ Handled(Command("Connect", client_id, None), <<>>)

handle_disconnect(client_id) ==
    /\ pc = "recv"
    /\ LET inroom == contains_key(client_rooms, client_id)
           r == IF inroom
                THEN remove_client_from_room(client_id, client_rooms[client_id])
                ELSE [rooms |-> rooms, sends |-> <<>>]
       IN  /\ client_rooms' = remove(client_rooms, client_id)
           /\ rooms' = r.rooms
           /\ clients' = IF r.sends = <<>> THEN remove(clients, client_id) ELSE clients
           /\ Handled(Command("Disconnect", client_id, None), r.sends)
    /\ UNCHANGED msg_rx

handle_set_username(client_id, username) ==
    /\ pc = "recv"
    /\ IF ~contains_key(clients, client_id)
       THEN /\ UNCHANGED registries
            /\ Handled(Command("SetUsername", client_id, username), <<>>)
       ELSE /\ clients' = [clients EXCEPT ![client_id] = set_username(@, username)]
            /\ UNCHANGED <<rooms, client_rooms>>
            /\ Handled(Command("SetUsername", client_id, username),
                       <<Send(client_id, UsernameSet(username))>>)
    /\ UNCHANGED msg_rx

\* as handle_create_room, but the first code drawn is taken: the loop that
\* draws again while the code is in use is left out
handle_create_room_no_retry(client_id) ==
    /\ pc = "recv"
    /\ LET c == Command("CreateRoom", client_id, None) IN
       IF ~contains_key(clients, client_id)
       THEN UNCHANGED registries /\ Handled(c, <<>>)
       ELSE IF ~has_username(clients[client_id])
       THEN UNCHANGED registries /\ Handled(c, <<Send(client_id, UsernameRequired)>>)
       ELSE IF already_in_room(client_id)
       THEN UNCHANGED registries /\ Handled(c, <<Send(client_id, AlreadyInRoom)>>)
       ELSE \E room_code \in generate :
            /\ rooms' = insert(rooms, room_code, Room_new(client_id))
            /\ client_rooms' = insert(client_rooms, client_id, room_code)
            /\ UNCHANGED clients
            /\ Handled(c, <<Send(client_id, RoomCreated(room_code))>>)
    /\ UNCHANGED msg_rx

handle_create_room(client_id) ==
    /\ pc = "recv"
    /\ LET c == Command("CreateRoom", client_id, None) IN
       IF ~contains_key(clients, client_id)
       THEN UNCHANGED registries /\ Handled(c, <<>>)
       ELSE IF ~has_username(clients[client_id])
       THEN UNCHANGED registries /\ Handled(c, <<Send(client_id, UsernameRequired)>>)
       ELSE IF already_in_room(client_id)
       THEN UNCHANGED registries /\ Handled(c, <<Send(client_id, AlreadyInRoom)>>)
       ELSE IF \A code \in generate : contains_key(rooms, code)
       THEN \* the loop finds no code that is not in use and never ends
            /\ UNCHANGED <<registries, pend>>
            /\ cmd' = c
            /\ before' = [clients |-> clients, rooms |-> rooms, client_rooms |-> client_rooms]
            /\ sent' = <<>>
            /\ pc' = "generate"
       ELSE \E room_code \in generate :
            /\ ~contains_key(rooms, room_code)
            /\ rooms' = insert(rooms, room_code, Room_new(client_id))
            /\ client_rooms' = insert(client_rooms, client_id, room_code)
            /\ UNCHANGED clients
            /\ Handled(c, <<Send(client_id, RoomCreated(room_code))>>)
    /\ UNCHANGED msg_rx

handle_join_room(client_id, raw_code) ==
    /\ pc = "recv"
    /\ LET c == Command("JoinRoom", client_id, raw_code)
           room_code == from_string(raw_code)
       IN
       IF ~contains_key(clients, client_id)
       THEN UNCHANGED registries /\ Handled(c, <<>>)
       ELSE IF ~has_username(clients[client_id])
       THEN UNCHANGED registries /\ Handled(c, <<Send(client_id, UsernameRequired)>>)
       ELSE IF already_in_room(client_id)
       THEN UNCHANGED registries /\ Handled(c, <<Send(client_id, AlreadyInRoom)>>)
       ELSE IF ~contains_key(rooms, room_code)
       THEN UNCHANGED registries /\ Handled(c, <<Send(client_id, RoomNotFound(room_code))>>)
       ELSE IF is_full(rooms[room_code])
       THEN UNCHANGED registries /\ Handled(c, <<Send(client_id, RoomFull)>>)
       ELSE LET host_id == rooms[room_code].host
                host_name == IF contains_key(clients, host_id)
                             THEN clients[host_id].username ELSE None
                guest_name == IF is_some(clients[client_id].username)
                              THEN unwrap(clients[client_id].username) ELSE <<>>
            IN  /\ rooms' = [rooms EXCEPT ![room_code] = add_guest(@, client_id)]
                /\ client_rooms' = insert(client_rooms, client_id, room_code)
                /\ UNCHANGED clients
                /\ Handled(c, <<Send(client_id, RoomJoined(room_code, host_name))>>
                              \o (IF contains_key(clients, host_id)
                                  THEN <<Send(host_id, PartnerJoined(guest_name))>>
                                  ELSE <<>>))
    /\ UNCHANGED msg_rx

\* as chat_sends, but PartnerStopTyping follows the Chat notification
chat_sends_swapped(partner_id, was_typing, sender_name, content) ==
    <<Send(partner_id, Chat(sender_name, content))>>
    \o (IF was_typing THEN <<Send(partner_id, PartnerStopTyping)>> ELSE <<>>)

\* the sends of handle_chat to the partner
chat_sends(partner_id, was_typing, sender_name, content) ==
    (IF was_typing THEN <<Send(partner_id, PartnerStopTyping)>> ELSE <<>>)
    \o <<Send(partner_id, Chat(sender_name, content))>>

handle_chat(client_id, content) ==
    /\ pc = "recv"
    /\ LET c == Command("Chat", client_id, content) IN
       IF ~contains_key(clients, client_id)
       THEN UNCHANGED registries /\ Handled(c, <<>>)
       ELSE IF ~contains_key(client_rooms, client_id)
       THEN UNCHANGED registries /\ Handled(c, <<Send(client_id, NotInRoom)>>)
       ELSE LET room_code == client_rooms[client_id]
                sender_name == display_name(clients[client_id])
                was_typing == clients[client_id].is_typing
                partner_id == get_partner(client_id, room_code)
            IN  /\ clients' = [clients EXCEPT ![client_id] = set_typing(@, FALSE)]
                /\ UNCHANGED <<rooms, client_rooms>>
                /\ Handled(c, IF is_some(partner_id) /\ contains_key(clients, unwrap(partner_id))
                              THEN chat_sends(unwrap(partner_id), was_typing, sender_name, content)
                              ELSE <<>>)
    /\ UNCHANGED msg_rx

\* the partner of handle_typing and handle_stop_typing is told, if there is one
notify_partner(client_id, room_code, msg) ==
    LET partner_id == get_partner(client_id, room_code) IN
    IF is_some(partner_id) /\ contains_key(clients, unwrap(partner_id))
    THEN <<Send(unwrap(partner_id), msg)>>
    ELSE <<>>

\* as handle_typing, but the flag is set before the room is looked up
handle_typing_sets_first(client_id) ==
    /\ pc = "recv"
    /\ LET c == Command("Typing", client_id, None) IN
       IF ~contains_key(clients, client_id)
       THEN UNCHANGED registries /\ Handled(c, <<>>)
       ELSE /\ clients' = [clients EXCEPT ![client_id] = set_typing(@, TRUE)]
            /\ UNCHANGED <<rooms, client_rooms>>
            /\ Handled(c, IF ~contains_key(client_rooms, client_id)
                          THEN <<Send(client_id, NotInRoom)>>
                          ELSE IF clients[client_id].is_typing
                          THEN <<>>
                          ELSE notify_partner(client_id, client_rooms[client_id], PartnerTyping))
    /\ UNCHANGED msg_rx

handle_typing(client_id) ==
    /\ pc = "recv"
    /\ LET c == Command("Typing", client_id, None) IN
       IF ~contains_key(clients, client_id)
       THEN UNCHANGED registries /\ Handled(c, <<>>)
       ELSE IF ~contains_key(client_rooms, client_id)
       THEN UNCHANGED registries /\ Handled(c, <<Send(client_id, NotInRoom)>>)
       ELSE IF clients[client_id].is_typing
       THEN UNCHANGED registries /\ Handled(c, <<>>)
       ELSE /\ clients' = [clients EXCEPT ![client_id] = set_typing(@, TRUE)]
            /\ UNCHANGED <<rooms, client_rooms>>
            /\ Handled(c, notify_partner(client_id, client_rooms[client_id], PartnerTyping))
    /\ UNCHANGED msg_rx

\* as handle_stop_typing, but a session in no room is told so, as in
\* handle_typing
handle_stop_typing_errs(client_id) ==
    /\ pc = "recv"
    /\ LET c == Command("StopTyping", client_id, None) IN
       IF ~contains_key(clients, client_id)
       THEN UNCHANGED registries /\ Handled(c, <<>>)
       ELSE IF ~contains_key(client_rooms, client_id)
       THEN UNCHANGED registries /\ Handled(c, <<Send(client_id, NotInRoom)>>)
       ELSE IF ~clients[client_id].is_typing
       THEN UNCHANGED registries /\ Handled(c, <<>>)
       ELSE /\ clients' = [clients EXCEPT ![client_id] = set_typing(@, FALSE)]
            /\ UNCHANGED <<rooms, client_rooms>>
            /\ Handled(c, notify_partner(client_id, client_rooms[client_id], PartnerStopTyping))
    /\ UNCHANGED msg_rx

handle_stop_typing(client_id) ==
    /\ pc = "recv"
    /\ LET c == Command("StopTyping", client_id, None) IN
       IF ~contains_key(clients, client_id)
       THEN UNCHANGED registries /\ Handled(c, <<>>)
       ELSE IF ~contains_key(client_rooms, client_id)
       THEN UNCHANGED registries /\ Handled(c, <<>>)
       ELSE IF ~clients[client_id].is_typing
       THEN UNCHANGED registries /\ Handled(c, <<>>)
       ELSE /\ clients' = [clients EXCEPT ![client_id] = set_typing(@, FALSE)]
            /\ UNCHANGED <<rooms, client_rooms>>
            /\ Handled(c, notify_partner(client_id, client_rooms[client_id], PartnerStopTyping))
    /\ UNCHANGED msg_rx

\* as handle_leave_room, but the session is not looked up in clients
handle_leave_room_unknown(client_id) ==
    /\ pc = "recv"
    /\ LET c == Command("LeaveRoom", client_id, None) IN
       IF ~contains_key(client_rooms, client_id)
       THEN UNCHANGED registries /\ Handled(c, <<Send(client_id, NotInRoom)>>)
       ELSE LET r == remove_client_from_room(client_id, client_rooms[client_id]) IN
            /\ client_rooms' = remove(client_rooms, client_id)
            /\ rooms' = r.rooms
            /\ UNCHANGED clients
            /\ Handled(c, r.sends)
    /\ UNCHANGED msg_rx

handle_leave_room(client_id) ==
    /\ pc = "recv"
    /\ LET c == Command("LeaveRoom", client_id, None) IN
       IF ~contains_key(clients, client_id)
       THEN UNCHANGED registries /\ Handled(c, <<>>)
       ELSE IF ~contains_key(client_rooms, client_id)
       THEN UNCHANGED registries /\ Handled(c, <<Send(client_id, NotInRoom)>>)
       ELSE LET r == remove_client_from_room(client_id, client_rooms[client_id]) IN
            /\ client_rooms' = remove(client_rooms, client_id)
            /\ rooms' = r.rooms
            /\ UNCHANGED clients
            /\ Handled(c, r.sends)
    /\ UNCHANGED msg_rx

\* Client::send: Ok when the receiving end of the channel is alive, and
\* Err(ChannelClosed), which every handler drops, when it is not
Client_send(to) == msg_rx[to] = "open"

\* as SendStep, but a send that fails ends the handler: the sends that remain
\* are not made
SendStep_stops_on_error ==
    /\ pc = "send"
    /\ pend # <<>>
    /\ LET s == Head(pend)
           rest == IF Client_send(s.to) THEN Tail(pend) ELSE <<>>
       IN  /\ sent' = Append(sent, [to |-> s.to, msg |-> s.msg, ok |-> Client_send(s.to)])
           /\ pend' = rest
           /\ pc' = IF rest = <<>> THEN "recv" ELSE "send"
           /\ clients' = IF rest = <<>> /\ cmd.op = "Disconnect"
                         THEN remove(clients, cmd.client_id)
                         ELSE clients
    /\ UNCHANGED <<rooms, client_rooms, msg_rx, cmd, before>>

\* The coordinator makes the next send of the handler it is in, and runs the
\* handler on to its next send or to its end (handle_disconnect ends by
\* removing the client).
SendStep ==
    /\ pc = "send"
    /\ pend # <<>>
    /\ LET s == Head(pend) IN
       sent' = Append(sent, [to |-> s.to, msg |-> s.msg, ok |-> Client_send(s.to)])
    /\ pend' = Tail(pend)
    /\ pc' = IF Tail(pend) = <<>> THEN "recv" ELSE "send"
    /\ clients' = IF Tail(pend) = <<>> /\ cmd.op = "Disconnect"
                  THEN remove(clients, cmd.client_id)
                  ELSE clients
    /\ UNCHANGED <<rooms, client_rooms, msg_rx, cmd, before>>

-----------------------------------------------------------------------------
(* handler.rs *)

\* The write task of a connection ends (a failed write to the socket), or
\* handle_connection returns early: msg_rx is dropped and the channel closes.
WriteTaskEnds(client_id) ==
    /\ msg_rx[client_id] = "open"
    /\ Cardinality({o \in ClientIds : msg_rx[o] = "closed"}) < MaxClosed
    /\ msg_rx' = [msg_rx EXCEPT ![client_id] = "closed"]
    /\ UNCHANGED <<clients, rooms, client_rooms, cmd, pc, pend, sent, before>>

\* handle_connection sends Connect before it spawns the read task, and the
\* queue is FIFO: the coordinator gets a command of a client only after that
\* client's Connect (and may get one after its Disconnect).
Connected == {s \in ClientIds : msg_rx[s] # "none"}

-----------------------------------------------------------------------------

Init ==
    /\ clients = EmptyMap
    /\ rooms = EmptyMap
    /\ client_rooms = EmptyMap
    /\ msg_rx = [s \in ClientIds |-> "none"]
    /\ cmd = Command("None", 0, None)
    /\ pc = "recv"
    /\ pend = <<>>
    /\ sent = <<>>
    /\ before = [clients |-> EmptyMap, rooms |-> EmptyMap, client_rooms |-> EmptyMap]
    /\ freed = {}
    /\ queue = <<>>
    /\ conn = [s \in ClientIds |-> "new"]
    /\ reader = [s \in ClientIds |-> "none"]
    /\ cmd_tx = TRUE
    /\ chan = [s \in ClientIds |-> <<>>]
    /\ yielded = [s \in ClientIds |-> <<>>]
    /\ issued = [s \in ClientIds |-> <<>>]
    /\ told = [s \in ClientIds |-> FALSE]
    /\ attempts = 0

Next ==
    \/ \E s \in ClientIds : handle_connect(s) /\ UNCHANGED apart
    \/ \E s \in Connected : handle_disconnect(s) /\ UNCHANGED apart
    \/ \E s \in Connected : \E u \in Usernames(s) :
            handle_set_username(s, u) /\ UNCHANGED apart
    \/ \E s \in Connected : handle_create_room(s) /\ UNCHANGED apart
    \/ \E s \in Connected, raw \in RawCodes : handle_join_room(s, raw) /\ UNCHANGED apart
    \/ \E s \in Connected, content \in Contents : handle_chat(s, content) /\ UNCHANGED apart
    \/ \E s \in Connected : handle_typing(s) /\ UNCHANGED apart
    \/ \E s \in Connected : handle_stop_typing(s) /\ UNCHANGED apart
    \/ \E s \in Connected : handle_leave_room(s) /\ UNCHANGED apart
    \/ SendStep /\ UNCHANGED apart
    \/ \E s \in ClientIds : WriteTaskEnds(s) /\ UNCHANGED apart

Spec == Init /\ [][Next]_vars

-----------------------------------------------------------------------------
(* Spec with the history of the codes that were deleted, for clients that  *)
(* send no Chat, Typing or StopTyping                                      *)

\* the coordinator takes the next command: freed becomes the set of the
\* codes whose rooms the command it has just processed deleted
Records ==
    /\ freed' = DOMAIN before.rooms \ DOMAIN rooms
    /\ UNCHANGED <<queue, conn, reader, cmd_tx, delivery, told, attempts>>

NextVacated ==
    \/ \E s \in ClientIds : handle_connect(s) /\ Records
    \/ \E s \in Connected : handle_disconnect(s) /\ Records
    \/ \E s \in Connected : \E u \in Usernames(s) :
            handle_set_username(s, u) /\ Records
    \/ \E s \in Connected : handle_create_room(s) /\ Records
    \/ \E s \in Connected, raw \in RawCodes : handle_join_room(s, raw) /\ Records
    \/ \E s \in Connected : handle_leave_room(s) /\ Records
    \/ SendStep /\ UNCHANGED apart
    \/ \E s \in ClientIds : WriteTaskEnds(s) /\ UNCHANGED apart

SpecVacated == Init /\ [][NextVacated]_vars

-----------------------------------------------------------------------------
(* The command queue, the connection handlers that fill it (handler.rs),   *)
(* the listener that starts them (main.rs) and the coordinator's loop that *)
(* empties it (ChatServer::run).  conn[s] is "new" for a connection not    *)
(* yet accepted, "registered" when handle_connection has sent Connect,     *)
(* "running" when it has spawned its two tasks and waits for one of them,  *)
(* "returned" when it has sent Disconnect and returned, and "failed" when  *)
(* it has returned with an error.  reader[s] is "none", "running" or       *)
(* "ended".  The write task runs while msg_rx[s] is "open".                *)

\* the connections the listener accepts
Connections == {1, 2}

\* the capacity of the command queue
QueueCap == 2

\* the commands the read task of a connection may send
ClientCommands(client_id) ==
    {Command("SetUsername", client_id, u) : u \in Usernames(client_id)}
    \cup {Command("CreateRoom", client_id, None),
          Command("JoinRoom", client_id, <<"a", "b">>)}

\* as cmd_tx_send, but the command goes to the front of the queue
cmd_tx_send_front(c) ==
    /\ Len(queue) < QueueCap
    /\ queue' = <<c>> \o queue

\* mpsc::Sender::send on the command queue: it waits while the queue is full
cmd_tx_send(c) ==
    /\ Len(queue) < QueueCap
    /\ queue' = Append(queue, c)

\* handle_connection up to the Connect it sends: the handshake is done, the
\* delivery channel is made and its sender goes to the coordinator
handle_connection_register(client_id) ==
    /\ conn[client_id] = "new"
    /\ cmd_tx
    /\ cmd_tx_send(Command("Connect", client_id, None))
    /\ msg_rx' = [msg_rx EXCEPT ![client_id] = "open"]
    /\ conn' = [conn EXCEPT ![client_id] = "registered"]
    /\ UNCHANGED <<registries, cmd, pc, pend, sent, before, freed, reader, cmd_tx>>

\* the message `connected' is written to the socket, and the read task and
\* the write task are spawned
handle_connection_spawn(client_id) ==
    /\ conn[client_id] = "registered"
    /\ conn' = [conn EXCEPT ![client_id] = "running"]
    /\ reader' = [reader EXCEPT ![client_id] = "running"]
    /\ UNCHANGED <<registries, msg_rx, cmd, pc, pend, sent, before, freed, queue, cmd_tx>>

\* the message `connected' cannot be written to the socket: the `?' returns
\* the error, and msg_rx and the handler's Sender are dropped
handle_connection_fails(client_id) ==
    /\ conn[client_id] = "registered"
    /\ conn' = [conn EXCEPT ![client_id] = "failed"]
    /\ msg_rx' = [msg_rx EXCEPT ![client_id] = "closed"]
    /\ UNCHANGED <<registries, cmd, pc, pend, sent, before, freed, queue, reader, cmd_tx>>

\* the read task turns a message of the client into a command and sends it
read_task(client_id, c) ==
    /\ reader[client_id] = "running"
    /\ cmd_tx_send(c)
    /\ UNCHANGED <<registries, msg_rx, cmd, pc, pend, sent, before, freed, conn, reader, cmd_tx>>

\* the read task ends: a Close frame, an error of the socket or its end
read_task_ends(client_id) ==
    /\ reader[client_id] = "running"
    /\ reader' = [reader EXCEPT ![client_id] = "ended"]
    /\ UNCHANGED <<registries, msg_rx, cmd, pc, pend, sent, before, freed, queue, conn, cmd_tx>>

\* the write task ends while handle_connection waits for it
write_task_ends(client_id) ==
    /\ conn[client_id] = "running"
    /\ WriteTaskEnds(client_id)
    /\ UNCHANGED aside

\* one of the two tasks has ended: handle_connection sends Disconnect and
\* returns (the other task is not stopped)
handle_connection_select(client_id) ==
    /\ conn[client_id] = "running"
    /\ reader[client_id] = "ended" \/ msg_rx[client_id] = "closed"
    /\ cmd_tx_send(Command("Disconnect", client_id, None))
    /\ conn' = [conn EXCEPT ![client_id] = "returned"]
    /\ UNCHANGED <<registries, msg_rx, cmd, pc, pend, sent, before, freed, reader, cmd_tx>>

\* the listener ends and drops its Sender of the command queue
listener_ends ==
    /\ cmd_tx
    /\ cmd_tx' = FALSE
    /\ UNCHANGED <<registries, msg_rx, cmd, pc, pend, sent, before, freed, queue, conn, reader>>

\* handle_connect for a Connect taken from the queue: the delivery channel
\* was made by handle_connection
handle_connect_received(client_id) ==
    /\ pc = "recv"
    /\ clients' = insert(clients, client_id, Client_new)
    /\ UNCHANGED <<rooms, client_rooms, msg_rx>>
    /\ Handled(Command("Connect", client_id, None), <<>>)

\* ChatServer::handle_command
handle_command(c) ==
    \/ c.op = "Connect" /\ handle_connect_received(c.client_id)
    \/ c.op = "Disconnect" /\ handle_disconnect(c.client_id)
    \/ c.op = "SetUsername" /\ handle_set_username(c.client_id, c.arg)
    \/ c.op = "CreateRoom" /\ handle_create_room(c.client_id)
    \/ c.op = "JoinRoom" /\ handle_join_room(c.client_id, c.arg)
    \/ c.op = "Chat" /\ handle_chat(c.client_id, c.arg)
    \/ c.op = "Typing" /\ handle_typing(c.client_id)
    \/ c.op = "StopTyping" /\ handle_stop_typing(c.client_id)
    \/ c.op = "LeaveRoom" /\ handle_leave_room(c.client_id)

\* every Sender of the command queue is dropped: the listener's, those of
\* the handlers that have not returned, those of the read tasks that run
queue_closed ==
    /\ ~cmd_tx
    /\ \A s \in Connections : conn[s] \notin {"registered", "running"}
    /\ \A s \in Connections : reader[s] # "running"

\* as run_recv_none, but the loop ends as soon as the queue is empty
run_recv_none_when_empty ==
    /\ pc = "recv"
    /\ queue = <<>>
    /\ pc' = "exited"
    /\ UNCHANGED <<registries, msg_rx, cmd, pend, sent, before, freed, queue, conn, reader, cmd_tx>>

\* ChatServer::run: recv gives None, the queue being empty and closed, and
\* the loop ends
run_recv_none ==
    /\ pc = "recv"
    /\ queue = <<>>
    /\ queue_closed
    /\ pc' = "exited"
    /\ UNCHANGED <<registries, msg_rx, cmd, pend, sent, before, freed, queue, conn, reader, cmd_tx>>

\* ChatServer::run: recv gives the command at the head of the queue, and
\* handle_command runs its handler up to the handler's first send
run_recv_some ==
    /\ queue # <<>>
    /\ queue' = Tail(queue)
    /\ handle_command(Head(queue))
    /\ UNCHANGED <<freed, conn, reader, cmd_tx>>

InitQueue == Init

NextQueue ==
    \/ \E s \in Connections : handle_connection_register(s) /\ UNCHANGED <<delivery, told, attempts>>
    \/ \E s \in Connections : handle_connection_spawn(s) /\ UNCHANGED <<delivery, told, attempts>>
    \/ \E s \in Connections : handle_connection_fails(s) /\ UNCHANGED <<delivery, told, attempts>>
    \/ \E s \in Connections : \E c \in ClientCommands(s) : read_task(s, c) /\ UNCHANGED <<delivery, told, attempts>>
    \/ \E s \in Connections : read_task_ends(s) /\ UNCHANGED <<delivery, told, attempts>>
    \/ \E s \in Connections : write_task_ends(s) /\ UNCHANGED <<delivery, told, attempts>>
    \/ \E s \in Connections : handle_connection_select(s) /\ UNCHANGED <<delivery, told, attempts>>
    \/ listener_ends /\ UNCHANGED <<delivery, told, attempts>>
    \/ run_recv_some /\ UNCHANGED <<delivery, told, attempts>>
    \/ run_recv_none /\ UNCHANGED <<delivery, told, attempts>>
    \/ SendStep /\ UNCHANGED apart

SpecQueue == InitQueue /\ [][NextQueue]_vars

-----------------------------------------------------------------------------
(* What the claims speak of *)

\* every send of the current handler, made or still to make, in order
emitted == [i \in 1..Len(sent) |-> [to |-> sent[i].to, msg |-> sent[i].msg]] \o pend

\* the coordinator has run the handler of cmd to its end
processed == pc = "recv"

issuer == cmd.client_id

\* the issuer of cmd was registered / named / mapped to a room when cmd was taken
WasRegistered == issuer \in DOMAIN before.clients

WasNamed == WasRegistered /\ before.clients[issuer].username # <<>>

WasInRoom == issuer \in DOMAIN before.client_rooms

\* the sessions in the slots of a room
Occupants(room) == {room.host} \cup {room.guest[i] : i \in 1..Len(room.guest)}

\* two characters that are equal up to letter case
SameLetter(x, y) ==
    \/ x = y
    \/ {x, y} \in {{"a", "A"}, {"b", "B"}, {"c", "C"}, {"d", "D"}}

\* raw names the room code `code', whatever the case of its letters
NamesCode(raw, code) ==
    /\ Len(raw) = Len(code)
    /\ \A i \in 1..Len(raw) : SameLetter(raw[i], code[i])

ErrorTo(to, code) == <<[to |-> to, msg |-> [type |-> "error", code |-> code]]>>

RegistriesUnchanged ==
    /\ clients = before.clients
    /\ rooms = before.rooms
    /\ client_rooms = before.client_rooms

\* the room the issuer of cmd was in when cmd was taken
RoomBefore == before.rooms[before.client_rooms[issuer]]

\* cmd made its issuer leave the room it was in
Departed ==
    /\ cmd.op \in {"LeaveRoom", "Disconnect"}
    /\ WasRegistered
    /\ WasInRoom
    /\ before.client_rooms[issuer] \in DOMAIN before.rooms

-----------------------------------------------------------------------------
(* C1: in every reachable state the three registries agree: a session that *)
(* client_rooms maps to a code is the host or the guest of the room with   *)
(* that code; every session in a slot of a room is mapped to that room's   *)
(* code; no session is in the slots of two rooms or in both slots of one.  *)
C1_RegistriesAgree ==
    /\ \A s \in DOMAIN client_rooms :
          /\ client_rooms[s] \in DOMAIN rooms
          /\ s \in Occupants(rooms[client_rooms[s]])
    /\ \A c \in DOMAIN rooms : \A s \in Occupants(rooms[c]) :
          /\ s \in DOMAIN client_rooms
          /\ client_rooms[s] = c
    /\ \A c \in DOMAIN rooms : rooms[c].guest # <<rooms[c].host>>
    /\ \A c1, c2 \in DOMAIN rooms :
          c1 # c2 => Occupants(rooms[c1]) \cap Occupants(rooms[c2]) = {}

\* a host has left a full room and another room exists
C1_Witness ==
    /\ processed
    /\ Departed
    /\ RoomBefore.host = issuer
    /\ RoomBefore.guest # <<>>
    /\ Cardinality(DOMAIN rooms) = 2

(* C2: CreateRoom or JoinRoom of a registered, named session that is       *)
(* mapped to a room sends exactly one AlreadyInRoom error, to that         *)
(* session, and changes no registry.                                       *)
C2_AlreadyInRoom ==
    (cmd.op \in {"CreateRoom", "JoinRoom"} /\ WasNamed /\ WasInRoom)
    => /\ emitted = ErrorTo(issuer, "already_in_room")
       /\ RegistriesUnchanged

C2_Witness ==
    /\ processed
    /\ cmd.op = "JoinRoom"
    /\ WasNamed /\ WasInRoom
    /\ \E c \in DOMAIN rooms : NamesCode(cmd.arg, c) /\ rooms[c].guest = <<>>
                               /\ rooms[c].host # issuer
    /\ Len(sent) = 1 /\ sent[1].ok

(* C3: JoinRoom on a room that has a guest sends RoomFull to the joiner    *)
(* and leaves the room's slots and the joiner's membership as they were;   *)
(* no room ever has more than two occupants.                               *)
C3_RoomFull ==
    /\ \A c \in DOMAIN before.rooms :
          ( /\ cmd.op = "JoinRoom"
            /\ WasNamed /\ ~WasInRoom
            /\ NamesCode(cmd.arg, c)
            /\ before.rooms[c].guest # <<>> )
          => /\ emitted = ErrorTo(issuer, "room_full")
             /\ c \in DOMAIN rooms /\ rooms[c] = before.rooms[c]
             /\ issuer \notin DOMAIN client_rooms
             /\ RegistriesUnchanged
    /\ \A c \in DOMAIN rooms :
          /\ Cardinality({s \in DOMAIN client_rooms : client_rooms[s] = c}) <= 2
          /\ Cardinality(Occupants(rooms[c])) <= 2

C3_Witness ==
    /\ processed
    /\ cmd.op = "JoinRoom"
    /\ WasNamed /\ ~WasInRoom
    /\ \E c \in DOMAIN before.rooms : NamesCode(cmd.arg, c) /\ before.rooms[c].guest # <<>>
    /\ Len(sent) = 1 /\ sent[1].ok

(* C4: CreateRoom and JoinRoom of a registered session with no display     *)
(* name send UsernameRequired to that session and leave rooms and          *)
(* client_rooms unchanged.                                                 *)
C4_UsernameRequired ==
    (cmd.op \in {"CreateRoom", "JoinRoom"} /\ WasRegistered /\ ~WasNamed)
    => /\ emitted = ErrorTo(issuer, "username_required")
       /\ rooms = before.rooms
       /\ client_rooms = before.client_rooms

C4_Witness ==
    /\ processed
    /\ cmd.op = "CreateRoom"
    /\ WasRegistered /\ ~WasNamed
    /\ rooms # EmptyMap
    /\ Len(sent) = 1 /\ sent[1].ok

(* C5: when the host of a room with a guest departs (LeaveRoom or          *)
(* Disconnect), the former guest is the host, the guest slot is empty, the *)
(* room is in the registry under the same code and the former guest is     *)
(* still mapped to that code.                                              *)
C5_HostPromotion ==
    (Departed /\ RoomBefore.host = issuer /\ RoomBefore.guest # <<>>)
    => LET c == before.client_rooms[issuer]
           g == RoomBefore.guest[1]
       IN  /\ c \in DOMAIN rooms
           /\ rooms[c].host = g
           /\ rooms[c].guest = <<>>
           /\ g \in DOMAIN client_rooms
           /\ client_rooms[g] = c

C5_Witness ==
    /\ processed
    /\ cmd.op = "Disconnect"
    /\ Departed
    /\ RoomBefore.host = issuer
    /\ RoomBefore.guest # <<>>

\* cmd made the host of a room without a guest leave it, and is processed
HostLeftAlone ==
    /\ processed
    /\ Departed
    /\ RoomBefore.host = issuer
    /\ RoomBefore.guest = <<>>

\* cmd made the guest of a room leave it, and is processed
GuestLeft ==
    /\ processed
    /\ Departed
    /\ RoomBefore.guest = <<issuer>>

\* the code of the room the issuer of cmd has left
CodeLeft == before.client_rooms[issuer]

\* the sends the handler has made so far are one RoomNotFound error to `to'
RoomNotFoundTo(sends, to) ==
    /\ Len(sends) = 1
    /\ sends[1].to = to
    /\ sends[1].msg.type = "error"
    /\ sends[1].msg.code = "room_not_found"

(* C6 as claimed: when the host of a room with no guest departs, the room  *)
(* is removed from the registry, and a JoinRoom with that code that the    *)
(* coordinator takes next, from any registered session, is answered        *)
(* RoomNotFound.                                                           *)
C6_AsClaimed ==
    /\ [](HostLeftAlone => CodeLeft \notin DOMAIN rooms)
    /\ [][ ( /\ HostLeftAlone
             /\ cmd'.op = "JoinRoom"
             /\ NamesCode(cmd'.arg, CodeLeft)
             /\ cmd'.client_id \in DOMAIN clients )
           => RoomNotFoundTo(pend', cmd'.client_id) ]_vars

(* C6 as amended: when the host of a room with no guest departs, the room  *)
(* is removed from the registry, and a JoinRoom with that code taken while *)
(* no room has the code admits nobody and changes no registry; it is       *)
(* answered RoomNotFound when its issuer is registered, named and in no    *)
(* room.                                                                   *)
C6_RoomDeleted ==
    /\ [](HostLeftAlone => CodeLeft \notin DOMAIN rooms)
    /\ [][ ( /\ HostLeftAlone
             /\ cmd'.op = "JoinRoom"
             /\ NamesCode(cmd'.arg, CodeLeft) )
           => /\ registries' = registries
              /\ ( ( /\ cmd'.client_id \in DOMAIN clients
                     /\ clients[cmd'.client_id].username # <<>>
                     /\ cmd'.client_id \notin DOMAIN client_rooms )
                   => RoomNotFoundTo(pend', cmd'.client_id) ) ]_vars
    /\ []( ( /\ cmd.op = "JoinRoom"
             /\ \A c \in DOMAIN before.rooms : ~NamesCode(cmd.arg, c) )
           => /\ RegistriesUnchanged
              /\ (WasNamed /\ ~WasInRoom => RoomNotFoundTo(emitted, issuer)) )

\* a host that was alone has left by LeaveRoom, and other clients are named
\* and in no room
C6_Witness ==
    /\ HostLeftAlone
    /\ cmd.op = "LeaveRoom"
    /\ CodeLeft \notin DOMAIN rooms
    /\ \E s \in DOMAIN clients : s # issuer /\ clients[s].username # <<>>
                                 /\ s \notin DOMAIN client_rooms

(* C7: when the guest of a room departs (LeaveRoom or Disconnect), the     *)
(* guest slot is empty and the room is still there with the same host; a   *)
(* JoinRoom with that code that the coordinator takes next from a          *)
(* registered, named session in no room makes that session the guest.      *)
C7_GuestLeaves ==
    /\ []( (Departed /\ RoomBefore.guest = <<issuer>>)
           => /\ CodeLeft \in DOMAIN rooms
              /\ rooms[CodeLeft].host = RoomBefore.host
              /\ rooms[CodeLeft].guest = <<>>
              /\ client_rooms[RoomBefore.host] = CodeLeft )
    /\ [][ ( /\ GuestLeft
             /\ cmd'.op = "JoinRoom"
             /\ NamesCode(cmd'.arg, CodeLeft)
             /\ cmd'.client_id \in DOMAIN clients
             /\ clients[cmd'.client_id].username # <<>>
             /\ cmd'.client_id \notin DOMAIN client_rooms )
           => /\ CodeLeft \in DOMAIN rooms'
              /\ rooms'[CodeLeft].host = RoomBefore.host
              /\ rooms'[CodeLeft].guest = <<cmd'.client_id>>
              /\ cmd'.client_id \in DOMAIN client_rooms'
              /\ client_rooms'[cmd'.client_id] = CodeLeft ]_vars

\* a guest has left by LeaveRoom, and a third client is named and in no room
C7_Witness ==
    /\ GuestLeft
    /\ cmd.op = "LeaveRoom"
    /\ \E s \in DOMAIN clients : s \notin {issuer, RoomBefore.host}
                                 /\ clients[s].username # <<>>
                                 /\ s \notin DOMAIN client_rooms

(* C8: once Disconnect(s) is processed, s is in no registry: not in        *)
(* clients, not in client_rooms, in no slot of any room.                   *)
C8_DisconnectRemoves ==
    (processed /\ cmd.op = "Disconnect")
    => /\ issuer \notin DOMAIN clients
       /\ issuer \notin DOMAIN client_rooms
       /\ \A c \in DOMAIN rooms : issuer \notin Occupants(rooms[c])

\* a client that was typing as the guest of a room has been disconnected
C8_Witness ==
    /\ processed
    /\ cmd.op = "Disconnect"
    /\ Departed
    /\ RoomBefore.guest = <<issuer>>
    /\ before.clients[issuer].is_typing

\* the other occupant of the room the issuer of cmd was in
PartnerBefore == Occupants(RoomBefore) \ {issuer}

(* C9 as claimed: when LeaveRoom or Disconnect takes a session out of a    *)
(* room with another occupant, exactly one PartnerLeft is put on the       *)
(* channel of that occupant and nothing is sent to anyone else; with no    *)
(* other occupant nothing is sent.                                         *)
C9_AsClaimed ==
    (processed /\ Departed)
    => IF PartnerBefore = {} THEN sent = <<>>
       ELSE /\ Len(sent) = 1
            /\ sent[1].to \in PartnerBefore
            /\ sent[1].msg.type = "partner_left"
            /\ sent[1].ok

(* C9 as amended: when LeaveRoom or Disconnect takes a session out of a    *)
(* room with another occupant, the coordinator makes exactly one send, of  *)
(* PartnerLeft to that occupant, which is put on the occupant's channel    *)
(* unless that channel is closed; with no other occupant it makes no send. *)
C9_PartnerLeft ==
    Departed
    => /\ IF PartnerBefore = {} THEN emitted = <<>>
          ELSE /\ Len(emitted) = 1
               /\ emitted[1].to \in PartnerBefore
               /\ emitted[1].msg.type = "partner_left"
       /\ \A i \in 1..Len(sent) : sent[i].ok \/ msg_rx[sent[i].to] = "closed"

\* a client has left a room whose other occupant has a closed channel
C9_Witness ==
    /\ processed
    /\ Departed
    /\ PartnerBefore # {}
    /\ Len(sent) = 1
    /\ ~sent[1].ok

(* C10: when a session with the typing flag set sends Chat while it has a  *)
(* partner, the coordinator sends the partner PartnerStopTyping and then   *)
(* the Chat notification, so the Chat notification is on the partner's     *)
(* channel only right after PartnerStopTyping, and the sender's flag is    *)
(* false afterwards; with the flag not set, only the Chat notification is  *)
(* sent.                                                                   *)
C10_ChatStopsTyping ==
    ( /\ cmd.op = "Chat"
      /\ WasRegistered /\ WasInRoom
      /\ before.client_rooms[issuer] \in DOMAIN before.rooms
      /\ PartnerBefore # {} )
    => LET n == Len(emitted)
           flag == before.clients[issuer].is_typing
       IN  /\ n = IF flag THEN 2 ELSE 1
           /\ \A i \in 1..n : emitted[i].to \in PartnerBefore
           /\ emitted[n].msg.type = "chat"
           /\ emitted[n].msg.content = cmd.arg
           /\ emitted[n].msg.from = before.clients[issuer].username[1]
           /\ flag => emitted[1].msg.type = "partner_stop_typing"
           /\ (flag /\ Len(sent) = 2 /\ sent[2].ok) => sent[1].ok
           /\ ~clients[issuer].is_typing

C10_Witness ==
    /\ processed
    /\ cmd.op = "Chat"
    /\ WasRegistered /\ WasInRoom
    /\ before.clients[issuer].is_typing
    /\ Len(sent) = 2
    /\ sent[1].msg.type = "partner_stop_typing" /\ sent[1].ok
    /\ sent[2].msg.type = "chat" /\ sent[2].ok

-----------------------------------------------------------------------------
(* C11 *)

\* cmd is a Typing of a session whose flag was set, or a StopTyping of a
\* session whose flag was not set
TypingRepeated ==
    /\ cmd.op = "Typing"
    /\ WasRegistered
    /\ before.clients[issuer].is_typing

StopTypingRepeated ==
    /\ cmd.op = "StopTyping"
    /\ WasRegistered
    /\ ~before.clients[issuer].is_typing

\* cmd has changed the typing flag of its issuer
FlagChanged ==
    /\ WasRegistered
    /\ issuer \in DOMAIN clients
    /\ clients[issuer].is_typing # before.clients[issuer].is_typing

(* C11: a Typing command of a session whose typing flag is already true,   *)
(* and a StopTyping command of a session whose flag is already false,      *)
(* change no registry and emit no notification at all; and a Typing or     *)
(* StopTyping command emits PartnerTyping or PartnerStopTyping only when   *)
(* it has changed the flag of its issuer.                                  *)
C11_AsClaimed ==
    /\ (TypingRepeated \/ StopTypingRepeated)
       => (emitted = <<>> /\ RegistriesUnchanged)
    /\ ( /\ cmd.op \in {"Typing", "StopTyping"}
         /\ \E i \in 1..Len(emitted) :
                emitted[i].msg \in {PartnerTyping, PartnerStopTyping} )
       => FlagChanged

-----------------------------------------------------------------------------
(* C12 *)

\* cmd ended in a business error: one of its sends is an error notification
EndedInError == \E i \in 1..Len(emitted) : emitted[i].msg.type = "error"

(* C12: a command that ends in a business error sends exactly one          *)
(* notification, the error, and sends it to the session that issued the    *)
(* command: the error is put on that session's channel (a channel that is  *)
(* still open has taken it) and nothing is put on the channel of any other *)
(* session; rooms, the membership map and the record of every session are  *)
(* as they were when the command was taken.                                *)
C12_ErrorToIssuerOnly ==
    EndedInError
    => /\ Len(emitted) = 1
       /\ emitted[1].to = issuer
       /\ emitted[1].msg.code \in {"username_required", "room_not_found", "room_full",
                                   "not_in_room", "already_in_room"}
       /\ \A i \in 1..Len(sent) : sent[i].to = issuer
       /\ (processed /\ msg_rx[issuer] = "open") => sent[1].ok
       /\ RegistriesUnchanged

\* a JoinRoom of a named session got room_full while its channel was open,
\* the room's two occupants being other sessions
C12_Witness ==
    /\ processed
    /\ cmd.op = "JoinRoom"
    /\ Len(sent) = 1
    /\ sent[1].msg = RoomFull
    /\ sent[1].to = issuer
    /\ sent[1].ok
    /\ \E code \in DOMAIN rooms : Cardinality(Occupants(rooms[code])) = 2

-----------------------------------------------------------------------------
(* C13 *)

\* cmd was issued by a registered session that was mapped to no room
IssuerInNoRoom == WasRegistered /\ ~WasInRoom

(* C13: for a registered session that is mapped to no room, each of Chat,  *)
(* Typing and LeaveRoom sends exactly one notification, the error          *)
(* not_in_room, to that session; StopTyping sends nothing; and none of the *)
(* four changes a registry or a typing flag.                               *)
C13_NotInRoom ==
    /\ (IssuerInNoRoom /\ cmd.op \in {"Chat", "Typing", "LeaveRoom"})
       => /\ emitted = ErrorTo(issuer, "not_in_room")
          /\ RegistriesUnchanged
    /\ (IssuerInNoRoom /\ cmd.op = "StopTyping")
       => /\ emitted = <<>>
          /\ RegistriesUnchanged

\* a LeaveRoom of a session in no room whose typing flag is set: the one
\* error reached the session, and the flag is as it was
C13_Witness ==
    /\ processed
    /\ IssuerInNoRoom
    /\ cmd.op = "LeaveRoom"
    /\ Len(sent) = 1
    /\ sent[1].ok
    /\ before.clients[issuer].is_typing
    /\ clients[issuer].is_typing

-----------------------------------------------------------------------------
(* C14 *)

\* the codes of the rooms that cmd, a JoinRoom, could join when it was taken:
\* the issuer was named and in no room, the code names a room, the room had
\* no guest
Joinable ==
    {code \in DOMAIN before.rooms :
        /\ cmd.op = "JoinRoom"
        /\ WasNamed /\ ~WasInRoom
        /\ NamesCode(cmd.arg, code)
        /\ before.rooms[code].guest = <<>>}

(* C14: a JoinRoom that succeeds makes its issuer the guest of the room    *)
(* and leaves the host and every other room as they were, maps the issuer  *)
(* to the room's code, and sends exactly two notifications: first          *)
(* room_joined to the joiner, with the room's code and the host's          *)
(* username, then partner_joined to the host, with the joiner's username.  *)
C14_JoinRoom ==
    \A code \in Joinable :
        LET host == before.rooms[code].host IN
        /\ rooms = [before.rooms EXCEPT ![code].guest = <<issuer>>]
        /\ client_rooms = insert(before.client_rooms, issuer, code)
        /\ clients = before.clients
        /\ emitted = << [to |-> issuer,
                         msg |-> [type |-> "room_joined", room_code |-> code,
                                  partner |-> before.clients[host].username]],
                        [to |-> host,
                         msg |-> [type |-> "partner_joined",
                                  username |-> before.clients[issuer].username[1]]] >>

\* Bo has joined the room of Al under a code given in lower case, and both
\* notifications have reached their channels
C14_Witness ==
    /\ processed
    /\ Joinable # {}
    /\ cmd.arg = <<"a", "b">>
    /\ issuer = 2
    /\ Len(sent) = 2
    /\ sent[1].ok /\ sent[2].ok
    /\ sent[1].msg.partner = << <<"A", "l">> >>
    /\ sent[2].msg.username = <<"B", "o">>

-----------------------------------------------------------------------------
(* C15 *)

\* a code as RoomCode::generate makes it: upper-case letters only
Canonical(code) == \A i \in 1..Len(code) : code[i] \in {"A", "B", "C", "D"}

(* C15: the rooms are registered under upper-case codes, and a JoinRoom    *)
(* of a named session in no room whose code equals, up to letter case, the *)
(* code of a room without a guest succeeds whatever the case of its        *)
(* letters: the issuer is the guest of that room and mapped to its         *)
(* upper-case code, no error is sent, and room_joined carries the          *)
(* upper-case code, as it does when the code is given in upper case.       *)
C15_AnyCase ==
    /\ \A code \in DOMAIN rooms : Canonical(code)
    /\ \A code \in DOMAIN before.rooms :
        ( /\ cmd.op = "JoinRoom"
          /\ WasNamed /\ ~WasInRoom
          /\ Len(cmd.arg) = Len(code)
          /\ \A i \in 1..Len(code) : SameLetter(cmd.arg[i], code[i])
          /\ before.rooms[code].guest = <<>> )
        => /\ rooms[code].guest = <<issuer>>
           /\ client_rooms[issuer] = code
           /\ ~EndedInError
           /\ Len(emitted) = 2
           /\ emitted[1].to = issuer
           /\ emitted[1].msg.type = "room_joined"
           /\ emitted[1].msg.room_code = code

\* a JoinRoom with the mixed-case code "aB" has joined the room "AB"
C15_Witness ==
    /\ processed
    /\ cmd.op = "JoinRoom"
    /\ cmd.arg = <<"a", "B">>
    /\ WasNamed /\ ~WasInRoom
    /\ <<"A", "B">> \in DOMAIN before.rooms
    /\ before.rooms[<<"A", "B">>].guest = <<>>
    /\ rooms[<<"A", "B">>].guest = <<issuer>>
    /\ Len(sent) = 2
    /\ sent[1].ok

-----------------------------------------------------------------------------
(* C16 *)

\* the codes under which cmd has registered a room
CodesIssued == DOMAIN rooms \ DOMAIN before.rooms

(* C16: a CreateRoom that succeeds registers exactly one room, with its    *)
(* issuer as host and no guest, under a code that no room had when the     *)
(* command was taken, and every room that existed then is still            *)
(* registered and unaltered; a CreateRoom that does not succeed leaves the *)
(* rooms as they were.  So a code that is in use is never issued: it can   *)
(* be issued again only when its room has been deleted.                    *)
C16_FreshCode ==
    cmd.op = "CreateRoom"
    => /\ \A code \in DOMAIN before.rooms :
              code \in DOMAIN rooms /\ rooms[code] = before.rooms[code]
       /\ IF \E i \in 1..Len(emitted) : emitted[i].msg.type = "room_created"
          THEN /\ Len(emitted) = 1
               /\ CodesIssued = {emitted[1].msg.room_code}
               /\ \A code \in CodesIssued :
                      /\ rooms[code] = [host |-> issuer, guest |-> <<>>]
                      /\ client_rooms = insert(before.client_rooms, issuer, code)
          ELSE CodesIssued = {} /\ client_rooms = before.client_rooms

\* a room is created while another room, with two occupants, exists
C16_Witness ==
    /\ processed
    /\ cmd.op = "CreateRoom"
    /\ CodesIssued # {}
    /\ \E code \in DOMAIN before.rooms : before.rooms[code].guest # <<>>
    /\ sent[1].ok

-----------------------------------------------------------------------------
(* C18 *)

\* the coordinator makes a send in this step
SendMade == pc = "send" /\ sent' # sent

(* C18: a send of the coordinator, whether the channel takes the           *)
(* notification or is closed, is made once (it leaves the sends still to   *)
(* make and is not put back), leaves the sends that follow it to be made,  *)
(* and changes the registries in the same way: not at all, but for the     *)
(* last send of Disconnect, after which the issuer is removed.  When a     *)
(* command has been processed no send of it is left, whatever sends        *)
(* failed, and the issuer of a Disconnect is registered no more.           *)
C18_FailedSend ==
    /\ [](processed => pend = <<>>)
    /\ []((processed /\ cmd.op = "Disconnect") => issuer \notin DOMAIN clients)
    /\ [][SendMade =>
            /\ pend # <<>>
            /\ pend' = Tail(pend)
            /\ Len(sent') = Len(sent) + 1
            /\ sent'[Len(sent')].to = Head(pend).to
            /\ sent'[Len(sent')].msg = Head(pend).msg
            /\ sent'[Len(sent')].ok = (msg_rx[Head(pend).to] = "open")
            /\ rooms' = rooms
            /\ client_rooms' = client_rooms
            /\ msg_rx' = msg_rx
            /\ clients' = IF cmd.op = "Disconnect" /\ Tail(pend) = <<>>
                          THEN [s \in DOMAIN clients \ {issuer} |-> clients[s]]
                          ELSE clients
            /\ (pend' # <<>> => pc' = "send")]_vars

\* the first send of a JoinRoom failed, the joiner's channel being closed;
\* the joiner is the guest all the same and the host got PartnerJoined
C18_Witness ==
    /\ processed
    /\ cmd.op = "JoinRoom"
    /\ Len(sent) = 2
    /\ ~sent[1].ok
    /\ sent[2].ok
    /\ sent[2].msg.type = "partner_joined"
    /\ issuer \in DOMAIN client_rooms
    /\ rooms[client_rooms[issuer]].guest = <<issuer>>

-----------------------------------------------------------------------------
(* C17, under SpecVacated *)

\* cmd, a CreateRoom now processed, has obtained a code whose room the
\* command before it deleted
CreatedOnVacated(code) ==
    /\ processed
    /\ cmd.op = "CreateRoom"
    /\ code \in freed
    /\ code \in CodesIssued

\* the coordinator takes, in this step, a JoinRoom with that code from a
\* session other than the issuer of cmd: the two commands were in its queue
\* together and the CreateRoom was ahead
JoinTakenNext(code) ==
    /\ cmd'.op = "JoinRoom"
    /\ cmd'.client_id # cmd.client_id
    /\ NamesCode(cmd'.arg, code)

\* cmd is a JoinRoom with a code whose room the command before it deleted:
\* of the two commands the JoinRoom was ahead
JoinOnVacated(code) ==
    /\ cmd.op = "JoinRoom"
    /\ WasRegistered
    /\ code \in freed
    /\ NamesCode(cmd.arg, code)

\* the JoinRoom taken in this step has made its issuer the guest of the room
JoinSucceeds(code) ==
    /\ code \in DOMAIN rooms'
    /\ rooms'[code].guest = <<cmd'.client_id>>

(* C17 as claimed: for a code whose room has just been deleted, a JoinRoom *)
(* with that code and a CreateRoom of another session that obtains the     *)
(* code do not both succeed, whichever of the two the coordinator takes    *)
(* first: a JoinRoom taken first fails, and a JoinRoom taken right after   *)
(* the CreateRoom that obtained the code fails too.                        *)
C17_AsClaimed ==
    /\ [](\A code \in generate : JoinOnVacated(code) => rooms = before.rooms)
    /\ [][\A code \in generate :
            (CreatedOnVacated(code) /\ JoinTakenNext(code)) => ~JoinSucceeds(code)]_vars

(* C17 as amended: for a code whose room has just been deleted, a JoinRoom *)
(* with that code taken before the CreateRoom of another session fails     *)
(* with room_not_found and changes nothing, so the two do not both         *)
(* succeed in that order; taken right after the CreateRoom that obtained   *)
(* the code, the JoinRoom of a named session in no room finds the room     *)
(* just created and succeeds as its guest, the creator being the host.     *)
C17_Serialized ==
    /\ [](\A code \in generate :
            JoinOnVacated(code)
            => /\ RegistriesUnchanged
               /\ WasNamed /\ ~WasInRoom
                  => emitted = <<[to |-> issuer,
                                  msg |-> [type |-> "error", code |-> "room_not_found",
                                           room_code |-> code]]>>)
    /\ [][\A code \in generate :
            ( /\ CreatedOnVacated(code)
              /\ JoinTakenNext(code)
              /\ cmd'.client_id \in DOMAIN clients
              /\ clients[cmd'.client_id].username # <<>>
              /\ cmd'.client_id \notin DOMAIN client_rooms )
            => /\ JoinSucceeds(code)
               /\ rooms'[code].host = cmd.client_id
               /\ client_rooms'[cmd'.client_id] = code]_vars

\* a CreateRoom has obtained the code of the room that the command before
\* it deleted, and another session, named and in no room, can join
C17_Witness ==
    /\ \E code \in generate : CreatedOnVacated(code)
    /\ sent # <<>>
    /\ sent[1].ok
    /\ \E s \in DOMAIN clients \ {issuer} :
           /\ clients[s].username # <<>>
           /\ s \notin DOMAIN client_rooms
           /\ msg_rx[s] = "open"

-----------------------------------------------------------------------------
(* C19, under SpecQueue *)

\* handle_connection has returned after it sent the Connect of session s
Returned(s) == conn[s] \in {"returned", "failed"}

InQueue(c) == \E i \in 1..Len(queue) : queue[i] = c

\* a Disconnect of session s is in the queue, or the coordinator has taken
\* one: it is processing it, or s, whose Connect it has taken, is registered
\* no more
DisconnectFollows(s) ==
    \/ InQueue(Command("Disconnect", s, None))
    \/ /\ ~InQueue(Command("Connect", s, None))
       /\ \/ s \notin DOMAIN clients
          \/ cmd = Command("Disconnect", s, None)

(* C19 as claimed: whenever handle_connection has returned after it sent   *)
(* the Connect of a session, on whatever path, it has sent a Disconnect    *)
(* for that session: the Disconnect is in the queue behind the Connect, or *)
(* the coordinator has taken it and removes the session.                   *)
C19_AsClaimed == \A s \in Connections : Returned(s) => DisconnectFollows(s)

-----------------------------------------------------------------------------
(* C20, under SpecQueue *)

\* no producer of the command queue is left: the listener has dropped its
\* Sender, every handler that sent Connect has returned, no read task runs
NoProducer ==
    /\ ~cmd_tx
    /\ \A s \in Connections :
           /\ conn[s] \in {"new", "returned", "failed"}
           /\ reader[s] \in {"none", "ended"}

(* C20: the coordinator's loop has ended only when no producer of the      *)
(* command queue is left and no command is in the queue; it ends in a step *)
(* that takes no command and changes no registry, from the place where it  *)
(* waits for a command; and the step that takes a command, whatever the    *)
(* command and the state, leaves the coordinator in its loop.              *)
C20_ExitOnlyWhenClosed ==
    /\ [](pc = "exited" => (queue = <<>> /\ NoProducer))
    /\ [](pc \in {"recv", "send", "generate", "exited"})
    /\ [][(pc # "exited" /\ pc' = "exited")
          => /\ pc = "recv"
             /\ queue = <<>>
             /\ NoProducer
             /\ pend = <<>>
             /\ cmd' = cmd
             /\ registries' = registries]_vars
    /\ [][(queue' # queue /\ Len(queue') < Len(queue))
          => (pc = "recv" /\ pc' \in {"recv", "send", "generate"}
              /\ cmd' = Head(queue) /\ queue' = Tail(queue))]_vars

\* the loop has ended after the coordinator processed the Disconnect of a
\* connection, when the listener and both connections were gone
C20_Witness ==
    /\ pc = "exited"
    /\ cmd.op = "Disconnect"
    /\ \A s \in Connections : conn[s] # "new"

-----------------------------------------------------------------------------
(* C21 *)

\* cmd is a Chat of a session that was alone in its room
ChatAlone ==
    /\ cmd.op = "Chat"
    /\ WasRegistered /\ WasInRoom
    /\ before.client_rooms[issuer] \in DOMAIN before.rooms
    /\ PartnerBefore = {}

(* C21: a Chat of a session that is alone in its room sends nothing, no    *)
(* error to the sender either, and leaves nothing behind: the rooms and    *)
(* the membership map are as they were and the records of the sessions     *)
(* differ at most in the sender's typing flag.  A chat notification is     *)
(* sent only by the Chat command that carries its content, to the partner  *)
(* the sender had when the command was taken, so no command taken later,   *)
(* such as the JoinRoom of a session that joins the room, sends it.        *)
C21_ChatAloneDropped ==
    /\ ChatAlone
       => /\ emitted = <<>>
          /\ rooms = before.rooms
          /\ client_rooms = before.client_rooms
          /\ clients = [before.clients EXCEPT ![issuer].is_typing = FALSE]
    /\ \A i \in 1..Len(emitted) :
           emitted[i].msg.type = "chat"
           => /\ cmd.op = "Chat"
              /\ emitted[i].msg.content = cmd.arg
              /\ WasInRoom
              /\ emitted[i].to \in PartnerBefore

\* a Chat of a session alone in its room, its typing flag set, is processed
\* and nothing was sent, while a named session in no room may join next
C21_Witness ==
    /\ processed
    /\ ChatAlone
    /\ sent = <<>>
    /\ before.clients[issuer].is_typing
    /\ \E s \in DOMAIN clients \ {issuer} :
           /\ clients[s].username # <<>>
           /\ s \notin DOMAIN client_rooms

-----------------------------------------------------------------------------
(* C22 *)

\* cmd, not a Connect, names a session that was not registered
UnknownSession ==
    /\ cmd.op \notin {"None", "Connect"}
    /\ ~WasRegistered

(* C22: a command other than Connect that names a session absent from the  *)
(* session registry changes none of the three registries and sends         *)
(* nothing, be it a second Disconnect or a command that arrives after the  *)
(* session's Disconnect; and a session that is not registered is mapped to *)
(* no room and is in no slot of a room.                                    *)
C22_UnknownSession ==
    /\ UnknownSession => (emitted = <<>> /\ RegistriesUnchanged)
    /\ \A s \in DOMAIN client_rooms : s \in DOMAIN clients
    /\ \A code \in DOMAIN rooms : Occupants(rooms[code]) \subseteq DOMAIN clients

\* a session whose Disconnect was processed asks to join a room that has no
\* guest, under a code that names the room
C22_Witness ==
    /\ processed
    /\ cmd.op = "JoinRoom"
    /\ UnknownSession
    /\ msg_rx[issuer] # "none"
    /\ \E code \in DOMAIN rooms :
           /\ NamesCode(cmd.arg, code)
           /\ rooms[code].guest = <<>>

-----------------------------------------------------------------------------
(* C23 *)

(* C23: Connect always succeeds: when the coordinator has taken the        *)
(* Connect of a session, the session registry is the one before with that  *)
(* session added, its username unset and its typing flag false, the        *)
(* session's delivery channel exists (the coordinator's sends to the       *)
(* session go to it), the rooms and the membership map are unchanged, and  *)
(* nothing is sent.                                                        *)
C23_Connect ==
    cmd.op = "Connect"
    => /\ processed
       /\ DOMAIN clients = DOMAIN before.clients \cup {issuer}
       /\ clients[issuer] = [username |-> <<>>, is_typing |-> FALSE]
       /\ \A s \in DOMAIN before.clients \ {issuer} : clients[s] = before.clients[s]
       /\ msg_rx[issuer] # "none"
       /\ rooms = before.rooms
       /\ client_rooms = before.client_rooms
       /\ emitted = <<>>

\* a Connect is processed while a room with two occupants exists and one of
\* them is typing
C23_Witness ==
    /\ cmd.op = "Connect"
    /\ \E code \in DOMAIN rooms : rooms[code].guest # <<>>
    /\ \E s \in DOMAIN clients : clients[s].is_typing
    /\ msg_rx[issuer] = "open"

-----------------------------------------------------------------------------
(* C25 *)

(* C25 as claimed: every handler has made all its changes to the           *)
(* registries before its first send: while the coordinator is at a send    *)
(* (where it may be suspended on a full channel) the registries hold the   *)
(* final state of the command, so no step that makes a send changes a      *)
(* registry.                                                               *)
C25_AsClaimed == [][pc = "send" => registries' = registries]_vars

-----------------------------------------------------------------------------
(* C29 *)

(* C29 as claimed: in every reachable state a session whose typing flag is *)
(* set is mapped to a room.                                                *)
C29_AsClaimed ==
    \A s \in DOMAIN clients : clients[s].is_typing => s \in DOMAIN client_rooms

-----------------------------------------------------------------------------
(* C30 *)

(* C30: a chat notification is put only on the channel of the session that *)
(* was the other occupant of the sender's room when the Chat was taken,    *)
(* never on the sender's channel or that of a session outside the room;    *)
(* and in every room the partner relation is symmetric: Room::get_partner  *)
(* gives b for a exactly when it gives a for b, gives no session as its    *)
(* own partner, and gives None for a session that is in no slot.           *)
C30_ChatToPartnerOnly ==
    /\ \A i \in 1..Len(emitted) :
           emitted[i].msg.type = "chat"
           => /\ cmd.op = "Chat"
              /\ WasRegistered /\ WasInRoom
              /\ emitted[i].to # issuer
              /\ emitted[i].to \in Occupants(RoomBefore)
              /\ before.client_rooms[emitted[i].to] = before.client_rooms[issuer]
    /\ \A code \in DOMAIN rooms : \A a \in ClientIds :
           /\ \A b \in ClientIds :
                  (Room_get_partner(rooms[code], a) = Some(b))
                  <=> (Room_get_partner(rooms[code], b) = Some(a))
           /\ Room_get_partner(rooms[code], a) # Some(a)
           /\ a \notin Occupants(rooms[code]) => Room_get_partner(rooms[code], a) = None
    /\ \A a \in DOMAIN client_rooms : \A b \in DOMAIN client_rooms :
           (get_partner(a, client_rooms[a]) = Some(b))
           <=> (get_partner(b, client_rooms[b]) = Some(a))

\* the guest of a room has sent a Chat that reached the host, while a third
\* session is registered and in another room
C30_Witness ==
    /\ processed
    /\ cmd.op = "Chat"
    /\ WasInRoom
    /\ RoomBefore.guest = <<issuer>>
    /\ Len(sent) = 1
    /\ sent[1].ok
    /\ sent[1].to = RoomBefore.host
    /\ \E s \in DOMAIN client_rooms : client_rooms[s] # client_rooms[issuer]

-----------------------------------------------------------------------------
(* Spec with the history of the typing notifications a session was sent by *)
(* its present partner, for connections whose write tasks do not end       *)

\* the partner of a session, as ChatServer::get_partner finds it in the room
\* the session is recorded in
partner_of(rs, crs, client_id) ==
    IF contains_key(crs, client_id) /\ contains_key(rs, crs[client_id])
    THEN Room_get_partner(rs[crs[client_id]], client_id)
    ELSE None

\* the notification that the step puts into the channel of client_id, if
\* it puts one
put_to(client_id) ==
    IF pc = "send" /\ pend # <<>> /\ pend' = Tail(pend)
       /\ Head(pend).to = client_id /\ Client_send(client_id)
    THEN Some(Head(pend).msg)
    ELSE None

\* told follows the step: a session that gets a new partner, or loses its
\* partner, was told nothing by its present partner; PartnerTyping sets the
\* mark and PartnerStopTyping clears it
Tells ==
    /\ told' = [s \in ClientIds |->
                 IF partner_of(rooms', client_rooms', s) # partner_of(rooms, client_rooms, s)
                 THEN FALSE
                 ELSE IF put_to(s) = Some(PartnerTyping) THEN TRUE
                 ELSE IF put_to(s) = Some(PartnerStopTyping) THEN FALSE
                 ELSE told[s]]
    /\ UNCHANGED <<aside, delivery, attempts>>

NextTold ==
    \/ \E s \in ClientIds : handle_connect(s) /\ Tells
    \/ \E s \in Connected : handle_disconnect(s) /\ Tells
    \/ \E s \in Connected : \E u \in Usernames(s) : handle_set_username(s, u) /\ Tells
    \/ \E s \in Connected : handle_create_room(s) /\ Tells
    \/ \E s \in Connected, raw \in RawCodes : handle_join_room(s, raw) /\ Tells
    \/ \E s \in Connected, content \in Contents : handle_chat(s, content) /\ Tells
    \/ \E s \in Connected : handle_typing(s) /\ Tells
    \/ \E s \in Connected : handle_stop_typing(s) /\ Tells
    \/ \E s \in Connected : handle_leave_room(s) /\ Tells
    \/ SendStep /\ Tells

SpecTold == Init /\ [][NextTold]_vars

(* C28: a session is sent PartnerStopTyping only when the last typing      *)
(* notification that its present partner caused it to be sent, since the   *)
(* two became partners, was PartnerTyping: whenever the coordinator is     *)
(* about to put PartnerStopTyping into the open channel of a session, that *)
(* session's mark `told' is set.                                           *)
C28_AsClaimed ==
    ( /\ pc = "send"
      /\ pend # <<>>
      /\ Head(pend).msg = PartnerStopTyping
      /\ Client_send(Head(pend).to) )
    => told[Head(pend).to]

-----------------------------------------------------------------------------
(* Spec with the loop of handle_create_room taken one draw at a time, for  *)
(* clients that connect, name themselves, create rooms and leave them      *)

MaxAttempts == 2

\* handle_create_room up to its loop
create_room_enter(client_id) ==
    /\ pc = "recv"
    /\ LET c == Command("CreateRoom", client_id, None) IN
       IF ~contains_key(clients, client_id)
       THEN Handled(c, <<>>) /\ UNCHANGED attempts
       ELSE IF ~has_username(clients[client_id])
       THEN Handled(c, <<Send(client_id, UsernameRequired)>>) /\ UNCHANGED attempts
       ELSE IF already_in_room(client_id)
       THEN Handled(c, <<Send(client_id, AlreadyInRoom)>>) /\ UNCHANGED attempts
       ELSE /\ cmd' = c
            /\ before' = [clients |-> clients, rooms |-> rooms, client_rooms |-> client_rooms]
            /\ sent' = <<>>
            /\ pc' = "generate"
            /\ attempts' = 0
            /\ UNCHANGED pend
    /\ UNCHANGED <<registries, msg_rx>>

\* as generate_step, but the test of the loop is inverted: a code that is
\* not in use is drawn again
generate_step_inverted(code) ==
    /\ pc = "generate"
    /\ IF ~contains_key(rooms, code)
       THEN /\ attempts' = IF attempts < MaxAttempts THEN attempts + 1 ELSE attempts
            /\ UNCHANGED <<registries, cmd, pc, pend, sent, before>>
       ELSE /\ rooms' = insert(rooms, code, Room_new(cmd.client_id))
            /\ client_rooms' = insert(client_rooms, cmd.client_id, code)
            /\ pend' = <<Send(cmd.client_id, RoomCreated(code))>>
            /\ pc' = "send"
            /\ UNCHANGED <<clients, cmd, sent, before, attempts>>
    /\ UNCHANGED msg_rx

\* one turn of the loop of handle_create_room, RoomCode::generate giving
\* code: a code in use is dropped and the loop goes on; a code not in use
\* ends the loop, and the handler runs on to its send
generate_step(code) ==
    /\ pc = "generate"
    /\ IF contains_key(rooms, code)
       THEN /\ attempts' = IF attempts < MaxAttempts THEN attempts + 1 ELSE attempts
            /\ UNCHANGED <<registries, cmd, pc, pend, sent, before>>
       ELSE /\ rooms' = insert(rooms, code, Room_new(cmd.client_id))
            /\ client_rooms' = insert(client_rooms, cmd.client_id, code)
            /\ pend' = <<Send(cmd.client_id, RoomCreated(code))>>
            /\ pc' = "send"
            /\ UNCHANGED <<clients, cmd, sent, before, attempts>>
    /\ UNCHANGED msg_rx

\* the rest of the state, which these steps leave alone
besides == <<aside, delivery, told>>

\* RoomCode::generate gives a code that is not in use
fresh_draw ==
    \E code \in generate : ~contains_key(rooms, code) /\ generate_step(code) /\ UNCHANGED besides

NextGenerate ==
    \/ \E s \in ClientIds : handle_connect(s) /\ UNCHANGED apart
    \/ \E s \in Connected : \E u \in Usernames(s) :
            handle_set_username(s, u) /\ UNCHANGED apart
    \/ \E s \in Connected : create_room_enter(s) /\ UNCHANGED besides
    \/ \E code \in generate : generate_step(code) /\ UNCHANGED besides
    \/ \E s \in Connected : handle_leave_room(s) /\ UNCHANGED apart
    \/ SendStep /\ UNCHANGED apart

\* the coordinator is a task of its own, which the runtime always runs on,
\* and a generator that is uniformly random gives a code that is not in use
\* after finitely many draws when there is one
SpecGenerate ==
    /\ Init
    /\ [][NextGenerate]_vars
    /\ WF_vars(fresh_draw)
    /\ WF_vars(SendStep /\ UNCHANGED apart)

\* the loop of handle_create_room runs and a code is not in use
InLoop == pc = "generate" /\ \E code \in generate : ~contains_key(rooms, code)

\* the CreateRoom has been processed and RoomCreated was sent to its issuer
RoomCreatedSent ==
    /\ pc = "recv"
    /\ cmd.op = "CreateRoom"
    /\ \E i \in 1..Len(sent) :
            sent[i].to = issuer /\ sent[i].msg \in {RoomCreated(code) : code \in generate}

(* C26: the processing of a CreateRoom of a named session that is in no    *)
(* room ends and emits RoomCreated: when the loop that generates the code  *)
(* runs while some code is not in use, and the generator is fair, the     *)
(* loop ends, RoomCreated is sent to the issuer and the coordinator is     *)
(* back at its queue.                                                      *)
C26_CreateRoomTerminates == InLoop ~> RoomCreatedSent

\* a CreateRoom was processed to its end after its loop had drawn a code
\* that was in use
C26_Witness == RoomCreatedSent /\ attempts > 0

-----------------------------------------------------------------------------
(* The delivery channels: two connections that are partners in a room,     *)
(* their read tasks, their write tasks and the coordinator                 *)

\* the capacity of a delivery channel (32 in handle_connection)
ChanCap == 1

\* the contents of the Chats a client sends, each of them once
ChatContents(client_id) ==
    IF client_id = 1 THEN {<<"h", "i">>, <<"y", "o">>} ELSE {}

\* the other commands a client sends (a Typing before a Chat makes
\* PartnerStopTyping go before the Chat notification)
DeliveryCommands(client_id) ==
    IF client_id = 1 THEN {Command("Typing", client_id, None)} ELSE {}

\* the read task turns a Chat of the client into a command and sends it
read_task_chat(client_id, content) ==
    /\ content \notin {issued[client_id][i] : i \in 1..Len(issued[client_id])}
    /\ read_task(client_id, Command("Chat", client_id, content))
    /\ issued' = [issued EXCEPT ![client_id] = Append(@, content)]
    /\ UNCHANGED <<chan, yielded, told, attempts>>

\* Client::send waits: the channel is full and its receiving end is alive
suspended(to) == msg_rx[to] = "open" /\ Len(chan[to]) >= ChanCap

\* SendStep with the channel: Client::send puts the notification into the
\* channel when there is room, waits while there is none, and gives
\* Err(ChannelClosed) when the receiving end was dropped
deliver_step ==
    /\ SendStep
    /\ LET s == Head(pend) IN
       /\ ~suspended(s.to)
       /\ chan' = IF Client_send(s.to)
                  THEN [chan EXCEPT ![s.to] = Append(@, s.msg)]
                  ELSE chan
    /\ UNCHANGED <<aside, yielded, issued, told, attempts>>

\* as write_task_recv, but the write task reports each notification it
\* has received to the coordinator, through the command queue
write_task_recv_reports(client_id) ==
    /\ msg_rx[client_id] = "open"
    /\ chan[client_id] # <<>>
    /\ cmd_tx_send(Command("StopTyping", client_id, None))
    /\ chan' = [chan EXCEPT ![client_id] = Tail(@)]
    /\ LET msg == Head(chan[client_id]) IN
       yielded' = IF msg.type = "chat"
                  THEN [yielded EXCEPT ![client_id] = Append(@, msg.content)]
                  ELSE yielded
    /\ UNCHANGED <<registries, msg_rx, cmd, pc, pend, sent, before, freed, conn,
                   reader, cmd_tx, issued, told, attempts>>

\* the write task receives the next notification of its channel and writes
\* it to the socket
write_task_recv(client_id) ==
    /\ msg_rx[client_id] = "open"
    /\ chan[client_id] # <<>>
    /\ chan' = [chan EXCEPT ![client_id] = Tail(@)]
    /\ LET msg == Head(chan[client_id]) IN
       yielded' = IF msg.type = "chat"
                  THEN [yielded EXCEPT ![client_id] = Append(@, msg.content)]
                  ELSE yielded
    /\ UNCHANGED <<registries, msg_rx, cmd, pc, pend, sent, before, aside, issued, told, attempts>>

\* the write task ends on a failed write to the socket: msg_rx is dropped
\* with the notifications that are in the channel
write_task_breaks(client_id) ==
    /\ write_task_ends(client_id)
    /\ chan' = [chan EXCEPT ![client_id] = <<>>]
    /\ UNCHANGED <<yielded, issued, told, attempts>>

\* Connections 1 and 2 have connected and named themselves, 1 has created
\* the room AB and 2 has joined it; the queue and the channels are empty
\* (a state that SpecQueue reaches, the histories begun anew)
InitDelivery ==
    /\ clients = [s \in Connections |->
                    set_username(Client_new, CHOOSE u \in Usernames(s) : TRUE)]
    /\ rooms = insert(EmptyMap, <<"A", "B">>, add_guest(Room_new(1), 2))
    /\ client_rooms = [s \in Connections |-> <<"A", "B">>]
    /\ msg_rx = [s \in ClientIds |-> IF s \in Connections THEN "open" ELSE "none"]
    /\ cmd = Command("JoinRoom", 2, <<"a", "b">>)
    /\ pc = "recv"
    /\ pend = <<>>
    /\ sent = <<>>
    /\ before = [clients |-> EmptyMap, rooms |-> EmptyMap, client_rooms |-> EmptyMap]
    /\ freed = {}
    /\ queue = <<>>
    /\ conn = [s \in ClientIds |-> IF s \in Connections THEN "running" ELSE "new"]
    /\ reader = [s \in ClientIds |-> IF s \in Connections THEN "running" ELSE "none"]
    /\ cmd_tx = TRUE
    /\ chan = [s \in ClientIds |-> <<>>]
    /\ yielded = [s \in ClientIds |-> <<>>]
    /\ issued = [s \in ClientIds |-> <<>>]
    /\ told = [s \in ClientIds |-> FALSE]
    /\ attempts = 0

NextDelivery ==
    \/ \E s \in Connections : \E content \in ChatContents(s) : read_task_chat(s, content)
    \/ \E s \in Connections : \E c \in DeliveryCommands(s) :
            read_task(s, c) /\ UNCHANGED <<delivery, told, attempts>>
    \/ \E s \in Connections : read_task_ends(s) /\ UNCHANGED <<delivery, told, attempts>>
    \/ \E s \in Connections : write_task_breaks(s)
    \/ \E s \in Connections : handle_connection_select(s) /\ UNCHANGED <<delivery, told, attempts>>
    \/ run_recv_some /\ UNCHANGED <<delivery, told, attempts>>
    \/ deliver_step
    \/ \E s \in Connections : write_task_recv(s)

\* the runtime runs every task that can go on: the coordinator takes the
\* next command and makes the next send, and a write task that lives takes
\* what is in its channel
SpecDelivery ==
    /\ InitDelivery
    /\ [][NextDelivery]_vars
    /\ WF_vars(run_recv_some /\ UNCHANGED <<delivery, told, attempts>>)
    /\ WF_vars(deliver_step)
    /\ \A s \in Connections : WF_vars(write_task_recv(s))

\* the contents of the Chat notifications of a sequence of notifications
RECURSIVE chat_contents(_)
chat_contents(msgs) ==
    IF msgs = <<>> THEN <<>>
    ELSE (IF Head(msgs).type = "chat" THEN <<Head(msgs).content>> ELSE <<>>)
         \o chat_contents(Tail(msgs))

\* the contents of the Chat commands of a client in a sequence of commands
RECURSIVE chats_queued(_, _)
chats_queued(client_id, cmds) ==
    IF cmds = <<>> THEN <<>>
    ELSE (IF Head(cmds).op = "Chat" /\ Head(cmds).client_id = client_id
          THEN <<Head(cmds).arg>> ELSE <<>>)
         \o chats_queued(client_id, Tail(cmds))

\* the notifications of a sequence of sends
notifications(sends) == [i \in 1..Len(sends) |-> sends[i].msg]

\* connection 2 is the partner of connection 1 (and, no connection joining
\* a room after the start, has been so all along)
Partners == partner_of(rooms, client_rooms, 1) = Some(2)

\* the Chats of connection 1 that the channel of connection 2 has taken
Taken == yielded[2] \o chat_contents(chan[2])

\* the Chats of connection 1 that are on their way: in the handler's sends
\* that remain, and in the queue
Underway == chat_contents(notifications(pend)) \o chats_queued(1, queue)

(* C24, as claimed: the Chats that connection 1 issues while connection 2  *)
(* is its partner reach the channel of connection 2, each once and in the  *)
(* order of issue: when the two are partners and no Chat is on its way,    *)
(* the channel of connection 2 has taken exactly the Chats that were       *)
(* issued, in their order.                                                 *)
C24_AsClaimed == (Partners /\ Underway = <<>>) => Taken = issued[1]

(* C24: commands are processed in the order they were enqueued and         *)
(* notifications reach a channel in the order they were emitted: while     *)
(* connection 2 is the partner of connection 1 and the receiving end of    *)
(* its channel is alive, the Chats that its write task has received, those *)
(* in its channel, those the handler has still to send and those in the    *)
(* queue are, in this order, the Chats connection 1 has issued, each once; *)
(* and in every case the Chats the write task of connection 2 has          *)
(* received are the first Chats that were issued, in the order of issue.   *)
C24_InOrderOnce ==
    /\ (Partners /\ msg_rx[2] = "open") => Taken \o Underway = issued[1]
    /\ Len(yielded[2]) <= Len(issued[1])
    /\ \A i \in 1..Len(yielded[2]) : yielded[2][i] = issued[1][i]

\* the write task of connection 2 has received both Chats of connection 1
\* while the two were partners
C24_Witness ==
    /\ Partners
    /\ msg_rx[2] = "open"
    /\ Len(yielded[2]) = 2
    /\ yielded[2] = issued[1]

\* the Chat command of connection 1 with this content
ChatOf(content) == Command("Chat", 1, content)

\* the Chat with this content was taken from the queue and its handler has
\* run to its end
ChatProcessed(content) ==
    /\ \E i \in 1..Len(issued[1]) : issued[1][i] = content
    /\ ~InQueue(ChatOf(content))
    /\ ~(pc = "send" /\ cmd = ChatOf(content))

\* the Disconnect of the connection was taken from the queue and its handler
\* has run to its end
DisconnectProcessed(client_id) ==
    /\ conn[client_id] = "returned"
    /\ ~InQueue(Command("Disconnect", client_id, None))
    /\ ~(pc = "send" /\ cmd = Command("Disconnect", client_id, None))

(* C27: the queue and the channels never lock the coordinator and the      *)
(* tasks of the connections: when every write task that lives takes what   *)
(* is in its channel, a handler that has begun runs to its end, and a      *)
(* command that is in the queue (the commands in front of it with it) is   *)
(* taken and processed: every Chat and every Disconnect that is enqueued   *)
(* is processed in the end.                                                *)
C27_NoDeadlock ==
    /\ (pc = "send") ~> (pc = "recv")
    /\ \A content \in ChatContents(1) :
            InQueue(ChatOf(content)) ~> ChatProcessed(content)
    /\ \A s \in Connections :
            InQueue(Command("Disconnect", s, None)) ~> DisconnectProcessed(s)

\* the coordinator waits for room in a channel that is full while the
\* queue is full and a Chat is in it
C27_Witness ==
    /\ pc = "send"
    /\ pend # <<>>
    /\ suspended(Head(pend).to)
    /\ Len(queue) = QueueCap
    /\ \E content \in ChatContents(1) : InQueue(ChatOf(content))

-----------------------------------------------------------------------------

\* the name that Client::display_name gives for a client without username
Placeholder == display_name(Client_new)

(* C31: in every reachable state every session that has the host slot or   *)
(* the guest slot of a room is registered and has its username set; so     *)
(* the partner field of every RoomJoined that is sent is present, and no   *)
(* Chat notification that is sent carries the placeholder name.            *)
C31_OccupantsNamed ==
    /\ \A code \in DOMAIN rooms : \A s \in Occupants(rooms[code]) :
            contains_key(clients, s) /\ has_username(clients[s])
    /\ \A i \in 1..Len(emitted) :
            /\ emitted[i].msg.type = "room_joined" => is_some(emitted[i].msg.partner)
            /\ emitted[i].msg.type = "chat" => emitted[i].msg.from # Placeholder

\* a Chat notification is sent in a room that a RoomJoined has filled
C31_Witness ==
    /\ cmd.op = "Chat"
    /\ \E i \in 1..Len(emitted) : emitted[i].msg.type = "chat"
    /\ \E code \in DOMAIN rooms : Cardinality(Occupants(rooms[code])) = 2

====
